---- MODULE Spec2Model ----
(***************************************************************************)
(* FileConverter bot: the per-user FSM session, the file handler           *)
(* (process_file), the callback handlers (handle_cancel,                   *)
(* handle_conversion) and the temp-file lifecycle, as a state machine.     *)
(*                                                                         *)
(* The bot runs on one asyncio loop; aiogram starts a task per update, so  *)
(* several handlers (also of the same user) are in flight at once and      *)
(* interleave at the awaits that really suspend: the Telegram API calls,   *)
(* the aiofiles write and the executor call.  MemoryStorage's coroutines   *)
(* never suspend, so `await state.*` is part of the surrounding step.      *)
(* Every action below is one run of a handler between two such awaits.     *)
(***************************************************************************)
EXTENDS Integers, Sequences, FiniteSets, Bags, TLC

None == "None"

(***************************************************************************)
(* Bounds and input sets                                                   *)
(***************************************************************************)
\* number of handler invocations that may be in flight together
MaxTasks == 2

\* Telegram user ids
Users == {101, 202}

(***************************************************************************)
(* keyboards/inline.py : the capability registry                           *)
(***************************************************************************)
FILE_TYPE_MAP ==
    [ jpg |-> "image", jpeg |-> "image", png |-> "image",
      webp |-> "image", bmp |-> "image", heic |-> "image",
      docx |-> "document", doc |-> "document", pdf |-> "pdf",
      txt |-> "text", rtf |-> "document", odt |-> "document",
      xlsx |-> "spreadsheet", xls |-> "spreadsheet", csv |-> "spreadsheet",
      mp3 |-> "audio", ogg |-> "audio", wav |-> "audio",
      flac |-> "audio", oga |-> "audio",
      mp4 |-> "video", avi |-> "video", mov |-> "video", mkv |-> "video" ]

\* CONVERSION_OPTIONS[type]['formats']
CONVERSION_OPTIONS ==
    [ image       |-> <<"jpg", "png", "webp", "bmp", "pdf">>,
      document    |-> <<"pdf", "txt", "docx">>,
      pdf         |-> <<"txt", "docx">>,
      text        |-> <<"pdf", "docx">>,
      spreadsheet |-> <<"csv", "xlsx">>,
      audio       |-> <<"mp3", "ogg", "wav", "flac">>,
      video       |-> <<"mp4", "avi", "mkv">> ]

\* str.lower() on the spellings that occur in the inputs
UpperCase == [ PNG |-> "png", JPG |-> "jpg", Mp3 |-> "mp3", EXE |-> "exe" ]

Lower(s) == IF s \in DOMAIN UpperCase THEN UpperCase[s] ELSE s

get_file_type(extension) ==
    IF Lower(extension) \in DOMAIN FILE_TYPE_MAP
    THEN FILE_TYPE_MAP[Lower(extension)] ELSE None

get_supported_extensions == DOMAIN FILE_TYPE_MAP

\* [fmt for fmt in seq if keep(fmt)], order preserved
RECURSIVE FilterOut(_, _)
FilterOut(seq, excl) ==
    IF seq = <<>> THEN <<>>
    ELSE IF Head(seq) \in excl THEN FilterOut(Tail(seq), excl)
         ELSE <<Head(seq)>> \o FilterOut(Tail(seq), excl)

Range(seq) == { seq[i] : i \in DOMAIN seq }

\* a callback_data string is modelled by its split(":") parts
CancelToken == <<"cancel">>

\* CONVERSION_OPTIONS knows the type of the extension
HasOptions(ext) ==
    get_file_type(ext) # None /\ get_file_type(ext) \in DOMAIN CONVERSION_OPTIONS

\* create_format_keyboard: built is FALSE where the code returns None, and
\* buttons are the callback_data of the keyboard's buttons, in order
create_format_keyboard(file_extension) ==
    LET ext == Lower(file_extension)
    IN  IF ~HasOptions(ext)
        THEN [built |-> FALSE, buttons |-> <<>>]
        ELSE LET exclude_formats == IF ext \in {"jpg", "jpeg"}
                                    THEN {"jpg", "jpeg"} ELSE {ext}
                 available_formats ==
                     FilterOut(CONVERSION_OPTIONS[get_file_type(ext)],
                               exclude_formats)
             IN  [ built   |-> TRUE,
                   buttons |-> [ i \in 1..Len(available_formats) |->
                                    <<"cvt", available_formats[i]>> ]
                               \o <<CancelToken>> ]

\* mutant: every extension of the source's own type is left out
get_conversion_info_other_types_only(file_extension) ==
    LET ext == Lower(file_extension)
    IN  IF ~HasOptions(ext)
        THEN [found |-> FALSE, available_formats |-> <<>>]
        ELSE [ found |-> TRUE,
               available_formats |->
                   FilterOut(CONVERSION_OPTIONS[get_file_type(ext)],
                             { e \in get_supported_extensions :
                                   get_file_type(e) = get_file_type(ext) }) ]

\* get_conversion_info: found is FALSE where the code returns None
get_conversion_info(file_extension) ==
    LET ext == Lower(file_extension)
    IN  IF ~HasOptions(ext)
        THEN [found |-> FALSE, available_formats |-> <<>>]
        ELSE [ found |-> TRUE,
               available_formats |->
                   FilterOut(CONVERSION_OPTIONS[get_file_type(ext)], {ext}) ]

(***************************************************************************)
(* handlers/files.py : incoming files                                      *)
(***************************************************************************)
MAX_FILE_SIZE_MB == 50

MAX_FILE_SIZE == MAX_FILE_SIZE_MB * 1024 * 1024

\* Telegram file ids are strings; ids of one bot and one file kind share
\* their leading characters
IdPrefix == <<"B", "Q", "A", "C", "A", "g", "I", "A">>

\* a file name is modelled by its dot-separated segments
Files ==
    { [file_id |-> IdPrefix \o <<"A", "1">>, file_name |-> <<"photo", "PNG">>,
       file_size |-> 2 * 1024 * 1024],
      [file_id |-> IdPrefix \o <<"A", "2">>, file_name |-> <<"song", "mp3">>,
       file_size |-> MAX_FILE_SIZE],
      [file_id |-> IdPrefix \o <<"A", "3">>, file_name |-> <<"setup", "exe">>,
       file_size |-> 1024],
      [file_id |-> IdPrefix \o <<"A", "5">>, file_name |-> <<"huge", "EXE">>,
       file_size |-> MAX_FILE_SIZE + 1],
      [file_id |-> IdPrefix \o <<"A", "6">>, file_name |-> <<"README">>,
       file_size |-> 0] }

\* Path(file_name).suffix.lower().lstrip('.') if file_name else ''
ExtensionOf(file_name) ==
    IF /\ Len(file_name) >= 2
       /\ file_name[Len(file_name)] # ""
       /\ (Len(file_name) >= 3 \/ file_name[1] # "")
    THEN Lower(file_name[Len(file_name)])
    ELSE ""

\* the files a user sends as documents: the first user any of them, the
\* second one a supported file, whose request and conversion interleave with
\* the first user's
FilesOf(u) ==
    IF u = 101 THEN Files
    ELSE { f \in Files : f.file_name = <<"photo", "PNG">> }

FileById(id) == CHOOSE f \in Files : f.file_id = id

(***************************************************************************)
(* aiogram FSMContext over MemoryStorage: per user a state and a data dict *)
(***************************************************************************)
EmptyData == [k \in {} |-> None]

waiting_for_format == "FileState:waiting_for_format"

Idle == [state |-> None, data |-> EmptyData]

\* mutant: keys already present keep their value (dict.setdefault)
update_data_keep(data, kv) ==
    [ k \in DOMAIN data \cup DOMAIN kv |->
          IF k \in DOMAIN data THEN data[k] ELSE kv[k] ]

\* FSMContext.update_data: dict.update
update_data(data, kv) ==
    [ k \in DOMAIN data \cup DOMAIN kv |->
          IF k \in DOMAIN kv THEN kv[k] ELSE data[k] ]

\* dict.get(key, default)
Get(data, key, default) == IF key \in DOMAIN data THEN data[key] ELSE default

VARIABLES
    session,      \* user -> [state, data]            (MemoryStorage)
    tasks,        \* bag of the handler invocations in flight
    fs,           \* the temp paths that exist in tempfile.gettempdir()
    call          \* the last call of a function of the registry or of the
                  \* converters made on its own, with what it computed

vars == <<session, tasks, fs, call>>

\* no such call was made
NoCall == [fn |-> None]

\* the empty string, as a file id
NoFile == <<>>

(***************************************************************************)
(* handlers/callbacks.py : locals of one handle_conversion invocation      *)
(***************************************************************************)
\* the callback_data a user can send: a button of a keyboard and a string
\* made up by a modified client
ClickTokens == { <<"cvt", "jpg">>, <<"cvt", "jpg", "x">> }

FILE_ID_PREFIX_LEN == 8

\* file_id[:8]
IdSlice(file_id) ==
    SubSeq(file_id, 1, IF Len(file_id) < FILE_ID_PREFIX_LEN
                       THEN Len(file_id) ELSE FILE_ID_PREFIX_LEN)

\* mutant: the input path does not name the user
InputPath_no_user(t) == <<"input", 0, IdSlice(t.file_id), t.ext>>

\* os.path.join(temp_dir, f"input_{user}_{file_id[:8]}.{source_extension}")
InputPath(t) == <<"input", t.user, IdSlice(t.file_id), t.ext>>

\* os.path.join(temp_dir, f"output_{user}_{file_id[:8]}.{target_format}")
OutputPath(t) == <<"output", t.user, IdSlice(t.file_id), t.target>>

\* Positions at which an invocation waits for an await to complete.
\*   reply          : the message.answer of process_file
\*   bad_edit, stale_edit : the edit_text of an early return
\*   download       : edit_text, get_file, download_file, save_file_from_bytes
\*   convert        : edit_text, then the converter on the executor
\*   converted_*    : the executor call is over, the coroutine not yet resumed
\*   upload         : edit_text, answer_document
\*   done_edit      : the last edit_text of the try block
\*   except_*       : the edit_text of an except block
\*   raised         : an exception raised in an except block has left
\*                    handle_conversion, after finally, and is with the
\*                    dispatcher of aiogram
EarlyPcs == {"bad_edit", "stale_edit"}

TryPcs == { "download", "convert", "converted_ok", "converted_raised",
            "upload", "done_edit" }

ExceptPcs == {"except_conv", "except_generic"}

AttemptPcs == TryPcs \cup ExceptPcs

InFlight == BagToSet(tasks)

Replace(t, new) == (tasks (-) SetToBag({t})) (+) SetToBag({new})

Remove(t) == tasks (-) SetToBag({t})

\* FSMContext.clear(): set_state(None) and set_data({})
Clear(u) == session' = [session EXCEPT ![u] = Idle]

TypeOK ==
    /\ \A u \in Users :
          /\ session[u].state \in {None, waiting_for_format}
          /\ DOMAIN session[u].data \subseteq
                 {"file_id", "file_name", "file_extension"}
    /\ BagCardinality(tasks) <= MaxTasks
    /\ \A t \in InFlight :
          t.pc \in {"reply", "raised"} \cup EarlyPcs \cup AttemptPcs

Init ==
    /\ session = [u \in Users |-> Idle]
    /\ tasks = EmptyBag
    /\ fs = {}
    /\ call = NoCall

\* the locals of an invocation: of process_file the file, the branch taken
\* and the file id of the request of another file that it replaced; of
\* handle_conversion the target and the request read from the session
NewTask(u, pc, verdict, replaced, target, data) ==
    [ user      |-> u,
      pc        |-> pc,
      verdict   |-> verdict,
      replaced  |-> replaced,
      target    |-> target,
      file_id   |-> Get(data, "file_id", NoFile),
      file_name |-> Get(data, "file_name", <<"file">>),
      ext       |-> Get(data, "file_extension", ""),
      delivered |-> FALSE ]

(***************************************************************************)
(* utils/converter_logic.py : the routing of convert_file, run_in_executor *)
(***************************************************************************)
\* mutant: the branch of the documents covers the type document only
Converter_document_only(source_format) ==
    LET file_type == get_file_type(source_format)
    IN  IF file_type = "image" THEN "convert_image"
        ELSE IF file_type = "audio" THEN "convert_audio"
        ELSE IF file_type = "video" THEN "convert_video"
        ELSE IF file_type = "document" THEN "convert_document"
        ELSE IF file_type = "spreadsheet" THEN "convert_spreadsheet"
        ELSE None

\* the converter convert_file routes a source format to, or None
Converter(source_format) ==
    LET file_type == get_file_type(source_format)
    IN  IF file_type = "image" THEN "convert_image"
        ELSE IF file_type = "audio" THEN "convert_audio"
        ELSE IF file_type = "video" THEN "convert_video"
        ELSE IF file_type \in {"document", "pdf", "text"} THEN "convert_document"
        ELSE IF file_type = "spreadsheet" THEN "convert_spreadsheet"
        ELSE None

\* mutant: the callable is called where it stands, on the event loop
run_on_loop == "loop"

\* run_in_executor: loop.run_in_executor(None, ...) runs the callable on a
\* thread of the default pool and the coroutine awaits its future
run_in_executor == "executor"

\* where the blocking body (_convert) of each converter runs
RunsOn ==
    [ convert_image       |-> run_in_executor,
      convert_audio       |-> run_in_executor,
      convert_video       |-> run_in_executor,
      convert_document    |-> run_in_executor,
      convert_spreadsheet |-> run_in_executor ]

\* the event loop can run a handler: no converter body occupies it
LoopFree ==
    \A t \in InFlight :
        (t.pc = "convert" /\ Converter(t.ext) # None) =>
            RunsOn[Converter(t.ext)] = "executor"

(***************************************************************************)
(* handlers/files.py : process_file                                        *)
(***************************************************************************)
\* mutant: the size check rejects a file of exactly the limit
Verdict_ge(f) ==
    LET extension == ExtensionOf(f.file_name)
    IN  IF f.file_size >= MAX_FILE_SIZE THEN "SizeExceeded"
        ELSE IF extension = "" \/ extension \notin get_supported_extensions
             THEN "UnsupportedFormat"
        ELSE IF \/ ~get_conversion_info(extension).found
                \/ get_conversion_info(extension).available_formats = <<>>
             THEN "NoFormats"
        ELSE IF ~create_format_keyboard(extension).built
             THEN "KeyboardFailed"
        ELSE "Accepted"

\* mutant: the check of the extension against the registry is dropped
Verdict_no_ext_check(f) ==
    LET extension == ExtensionOf(f.file_name)
    IN  IF f.file_size > MAX_FILE_SIZE THEN "SizeExceeded"
        ELSE IF \/ ~get_conversion_info(extension).found
                \/ get_conversion_info(extension).available_formats = <<>>
             THEN "NoFormats"
        ELSE IF ~create_format_keyboard(extension).built
             THEN "KeyboardFailed"
        ELSE "Accepted"

\* the branch process_file takes for a file
Verdict(f) ==
    LET extension == ExtensionOf(f.file_name)
    IN  IF f.file_size > MAX_FILE_SIZE THEN "SizeExceeded"
        ELSE IF extension = "" \/ extension \notin get_supported_extensions
             THEN "UnsupportedFormat"
        ELSE IF \/ ~get_conversion_info(extension).found
                \/ get_conversion_info(extension).available_formats = <<>>
             THEN "NoFormats"
        ELSE IF ~create_format_keyboard(extension).built
             THEN "KeyboardFailed"
        ELSE "Accepted"

\* the keyword arguments of state.update_data(...)
RequestOf(f) ==
    [ file_id        |-> f.file_id,
      file_name      |-> f.file_name,
      file_extension |-> ExtensionOf(f.file_name) ]

\* state.update_data(file_id=, file_name=, file_extension=); state.set_state
StoreRequest(s, f) ==
    [ state |-> waiting_for_format,
      data  |-> update_data(s.data, RequestOf(f)) ]

\* the file id of the stored request that accepting f replaces, when it is
\* the request of another file
Replaced(s, f) ==
    IF Verdict(f) = "Accepted" /\ Get(s.data, "file_id", f.file_id) # f.file_id
    THEN s.data["file_id"] ELSE NoFile

\* mutant: the request is stored before the checks, also for a rejected file
process_file_stores_first(u, f) ==
    /\ BagCardinality(tasks) < MaxTasks
    /\ LoopFree
    /\ tasks' = tasks (+)
           SetToBag({NewTask(u, "reply", Verdict(f), Replaced(session[u], f), "",
                             [ file_id   |-> f.file_id,
                               file_name |-> f.file_name ])})
    /\ session' = [session EXCEPT ![u] = StoreRequest(session[u], f)]
    /\ UNCHANGED fs
    /\ UNCHANGED call

\* The message arrives and process_file runs to its message.answer; the
\* invocation stays in flight until that call is over.
process_file(u, f) ==
    /\ BagCardinality(tasks) < MaxTasks
    /\ LoopFree
    /\ tasks' = tasks (+)
           SetToBag({NewTask(u, "reply", Verdict(f), Replaced(session[u], f), "",
                             [ file_id   |-> f.file_id,
                               file_name |-> f.file_name ])})
    /\ session' = IF Verdict(f) = "Accepted"
                  THEN [session EXCEPT ![u] = StoreRequest(session[u], f)]
                  ELSE session
    /\ UNCHANGED fs
    /\ UNCHANGED call

\* message.answer returns or raises; process_file is over
ReplySent(t) ==
    /\ t.pc = "reply"
    /\ LoopFree
    /\ tasks' = Remove(t)
    /\ UNCHANGED <<session, fs>>
    /\ UNCHANGED call

(***************************************************************************)
(* handlers/callbacks.py : handle_cancel                                   *)
(***************************************************************************)
\* mutant: the cancel also drops the user's conversion attempts
handle_cancel_stops_attempts(u) ==
    /\ LoopFree
    /\ Clear(u)
    /\ tasks' = [ t \in { x \in InFlight :
                              ~(x.user = u /\ x.pc \in AttemptPcs) }
                    |-> tasks[t] ]
    /\ UNCHANGED <<fs, call>>

\* mutant: only the state is reset, the data are kept
handle_cancel_keeps_data(u) ==
    /\ LoopFree
    /\ session' = [session EXCEPT ![u].state = None]
    /\ UNCHANGED <<tasks, fs>>
    /\ UNCHANGED call

\* state.clear() runs before the handler's first suspension; the edit_text
\* and the callback.answer that follow change nothing, also when they raise
handle_cancel(u) ==
    /\ LoopFree
    /\ Clear(u)
    /\ UNCHANGED <<tasks, fs>>
    /\ UNCHANGED call

(***************************************************************************)
(* handlers/callbacks.py : handle_conversion                               *)
(***************************************************************************)
\* mutant: the lost-request check is dropped
HasRequest_always(data) == TRUE

\* the request is present when both the extension and the file id are
HasRequest(data) ==
    Get(data, "file_extension", "") # "" /\ Get(data, "file_id", NoFile) # NoFile

\* mutant: the number of parts of the callback data is not checked
Entry_any_length(tok, data) ==
    IF ~HasRequest(data) THEN "stale_edit" ELSE "download"

\* the await the invocation reaches first: that of the malformed-data return,
\* of the lost-request return, or of the conversion attempt
Entry(tok, data) ==
    IF Len(tok) # 2 THEN "bad_edit"
    ELSE IF ~HasRequest(data) THEN "stale_edit"
    ELSE "download"

\* The update arrives and the handler runs from callback.answer to its first
\* edit_text (a callback.answer that raises ends the handler with no effect).
handle_conversion(u, tok) ==
    /\ BagCardinality(tasks) < MaxTasks
    /\ LoopFree
    /\ Len(tok) >= 2 /\ tok[1] = "cvt"
    /\ tasks' = tasks (+)
           SetToBag({NewTask(u, Entry(tok, session[u].data), None, NoFile,
                             IF Len(tok) = 2 THEN tok[2] ELSE "",
                             IF Len(tok) = 2 THEN session[u].data
                             ELSE EmptyData)})
    /\ UNCHANGED <<session, fs>>
    /\ UNCHANGED call

\* edit_text("некорректные данные") returns; state.clear(); return.
\* When the edit raises, the exception leaves the handler.
BadTokenEdit(t, ok) ==
    /\ t.pc = "bad_edit"
    /\ LoopFree
    /\ tasks' = Remove(t)
    /\ IF ok THEN Clear(t.user) ELSE UNCHANGED session
    /\ UNCHANGED <<fs, call>>

\* edit_text("информация о файле потеряна") returns; state.clear(); return
StaleEdit(t, ok) ==
    /\ t.pc = "stale_edit"
    /\ LoopFree
    /\ tasks' = Remove(t)
    /\ IF ok THEN Clear(t.user) ELSE UNCHANGED session
    /\ UNCHANGED <<fs, call>>

\* edit_text("Загружаю файл"), the naming of the paths, and in the try block
\* get_file, download_file, save_file_from_bytes.
\*   edit_failed : the edit raises and the exception leaves the handler
\*                 before the try block
\*   saved       : the input file is written
\*   partial     : the write fails after it created the input file
\*   failed      : get_file, download_file or the open fails
Download(t, result) ==
    /\ t.pc = "download"
    /\ LoopFree
    /\ fs' = IF result \in {"saved", "partial"}
             THEN fs \cup {InputPath(t)} ELSE fs
    /\ tasks' = IF result = "edit_failed" THEN Remove(t)
                ELSE Replace(t, [t EXCEPT
                        !.pc = IF result = "saved" THEN "convert"
                               ELSE "except_generic"])
    /\ UNCHANGED session
    /\ UNCHANGED call

(***************************************************************************)
(* utils/converter_logic.py : convert_file and the converters              *)
(***************************************************************************)
\* edit_text("Конвертирую ...") and convert_file up to the end of the
\* converter's blocking body on the executor.  When the edit raises, no
\* converter runs.  The external tool may write its output or not and may
\* raise or not; without a converter or without the input file nothing is
\* written and ConversionError is raised (the converters of the files sent
\* here, convert_image and convert_audio, re-raise every exception as
\* ConversionError).
ConverterRun(t, editOk, wrote, raised) ==
    /\ t.pc = "convert"
    /\ ~editOk => (raised /\ ~wrote)
    /\ (Converter(t.ext) = None \/ InputPath(t) \notin fs) => (raised /\ ~wrote)
    /\ fs' = IF wrote THEN fs \cup {OutputPath(t)} ELSE fs
    /\ tasks' = Replace(t, [t EXCEPT
                   !.pc = IF ~editOk THEN "except_generic"
                          ELSE IF raised THEN "converted_raised"
                          ELSE "converted_ok"])
    /\ UNCHANGED session
    /\ UNCHANGED call

(***************************************************************************)
(* handlers/callbacks.py : handle_conversion after the conversion          *)
(***************************************************************************)
\* mutant: the existence of the output file is not checked
ConvertResume_no_exists_check(t) ==
    /\ t.pc \in {"converted_ok", "converted_raised"}
    /\ LoopFree
    /\ tasks' = Replace(t, [t EXCEPT
                   !.pc = IF t.pc = "converted_raised"
                          THEN "except_conv" ELSE "upload"])
    /\ UNCHANGED <<session, fs>>
    /\ UNCHANGED call

\* await convert_file resumes: the ConversionError is caught, or
\* os.path.exists(output_path) is checked
ConvertResume(t) ==
    /\ t.pc \in {"converted_ok", "converted_raised"}
    /\ LoopFree
    /\ tasks' = Replace(t, [t EXCEPT
                   !.pc = IF t.pc = "converted_raised" \/ OutputPath(t) \notin fs
                          THEN "except_conv" ELSE "upload"])
    /\ UNCHANGED <<session, fs>>
    /\ UNCHANGED call

\* edit_text("Загружаю результат") and answer_document(FSInputFile(output_path)),
\* which reads the output file while sending
Upload(t, result) ==
    /\ t.pc = "upload"
    /\ LoopFree
    /\ result = "sent" => OutputPath(t) \in fs
    /\ tasks' = Replace(t, [t EXCEPT
                   !.pc = IF result = "sent" THEN "done_edit"
                          ELSE "except_generic",
                   !.delivered = (result = "sent")])
    /\ UNCHANGED <<session, fs>>
    /\ UNCHANGED call

\* mutant: only the input file is removed
cleanup_files_input_only(files, paths) ==
    files \ { p \in paths : p[1] = "input" }

\* for each path: os.path.exists(path), os.remove(path)
cleanup_files(files, paths) == files \ paths

\* finally: state.clear(); cleanup_files(input_path, output_path)
Finally(t) ==
    /\ Clear(t.user)
    /\ fs' = cleanup_files(fs, {InputPath(t), OutputPath(t)})

\* edit_text("Готово!") returns: the try block ends and finally runs; when it
\* raises, the edit_text of `except Exception` is awaited
DoneEdit(t, ok) ==
    /\ t.pc = "done_edit"
    /\ LoopFree
    /\ IF ok
       THEN /\ tasks' = Remove(t)
            /\ Finally(t)
       ELSE /\ tasks' = Replace(t, [t EXCEPT !.pc = "except_generic"])
            /\ UNCHANGED <<session, fs>>
    /\ UNCHANGED call

\* the edit_text of an except block returns, or raises: no except clause
\* covers an except block, so after finally the exception leaves the handler
ExceptEdit(t, ok) ==
    /\ t.pc \in ExceptPcs
    /\ LoopFree
    /\ tasks' = IF ok THEN Remove(t)
                ELSE Replace(t, [t EXCEPT !.pc = "raised"])
    /\ Finally(t)
    /\ UNCHANGED call

\* the dispatcher logs the exception of the handler; the update is over
Propagate(t) ==
    /\ t.pc = "raised"
    /\ LoopFree
    /\ tasks' = Remove(t)
    /\ UNCHANGED <<session, fs, call>>

Next ==
    \/ \E u \in Users : \E f \in FilesOf(u) : process_file(u, f)
    \/ \E t \in InFlight : ReplySent(t)
    \/ \E u \in Users : handle_cancel(u)
    \/ \E u \in Users, tok \in ClickTokens : handle_conversion(u, tok)
    \/ \E t \in InFlight, ok \in BOOLEAN : BadTokenEdit(t, ok)
    \/ \E t \in InFlight, ok \in BOOLEAN : StaleEdit(t, ok)
    \/ \E t \in InFlight,
          result \in {"edit_failed", "saved", "partial", "failed"} :
          Download(t, result)
    \/ \E t \in InFlight, editOk \in BOOLEAN, wrote \in BOOLEAN,
          raised \in BOOLEAN : ConverterRun(t, editOk, wrote, raised)
    \/ \E t \in InFlight : ConvertResume(t)
    \/ \E t \in InFlight, result \in {"edit_failed", "sent", "send_failed"} :
          Upload(t, result)
    \/ \E t \in InFlight, ok \in BOOLEAN : DoneEdit(t, ok)
    \/ \E t \in InFlight, ok \in BOOLEAN : ExceptEdit(t, ok)
    \/ \E t \in InFlight : Propagate(t)

Spec == Init /\ [][Next]_vars

(***************************************************************************)
(* The functions of the registry and of the converters, called on their    *)
(* own with arguments drawn from the sets below; `call` records the        *)
(* arguments and what the function computed.                               *)
(***************************************************************************)
\* extensions as they reach the registry: the supported ones, upper-case
\* spellings, an unknown one and the empty string
Extensions == get_supported_extensions \cup {"PNG", "JPG", "exe", ""}

\* target formats as they reach convert_file: every target of the registry
\* and one it does not know
Targets ==
    UNION { Range(CONVERSION_OPTIONS[k]) : k \in DOMAIN CONVERSION_OPTIONS }
        \cup {"flv"}

\* the external tool of a converter ends normally or raises; ffmpeg.run
\* raises ffmpeg.Error with the captured stderr, bytes that decode as UTF-8
\* or do not
ToolOutcomes == {"ok", "raises", "ffmpeg.Error", "ffmpeg.Error.undecodable"}

\* target formats as they reach convert_video
VideoTargets == {"mp4", "avi", "mkv", "MP4", "mov", "jpg"}

\* mutant: the mkv entry of codec_settings is missing
codec_settings_no_mkv ==
    [ mp4 |-> [vcodec |-> "libx264", acodec |-> "aac"],
      avi |-> [vcodec |-> "mpeg4", acodec |-> "mp3"] ]

codec_settings ==
    [ mp4 |-> [vcodec |-> "libx264", acodec |-> "aac"],
      avi |-> [vcodec |-> "mpeg4", acodec |-> "mp3"],
      mkv |-> [vcodec |-> "libx264", acodec |-> "aac"] ]

\* convert_video: the codecs handed to ffmpeg.output and how it ends.
\* `except ffmpeg.Error` logs e.stderr.decode() before it raises
\* ConversionError; a decode that fails raises UnicodeDecodeError from
\* inside the except block, which no other clause covers
convert_video(target_format, tool) ==
    [ settings |-> IF target_format \in DOMAIN codec_settings
                   THEN codec_settings[target_format]
                   ELSE [vcodec |-> "copy", acodec |-> "copy"],
      outcome  |-> IF tool = "ok" THEN "output_path"
                   ELSE IF tool = "ffmpeg.Error.undecodable"
                        THEN "UnicodeDecodeError"
                   ELSE "ConversionError" ]

\* target formats as they reach convert_audio
AudioTargets == {"mp3", "ogg", "wav", "flac", "oga", "MP3"}

\* convert_audio: the keyword arguments of audio.export and how it ends;
\* every exception is re-raised as ConversionError
convert_audio(target_format, tool) ==
    [ export_kwargs |->
          IF target_format = "mp3"
          THEN [format |-> "mp3", bitrate |-> "320k", codec |-> None]
          ELSE IF target_format = "ogg"
          THEN [format |-> "ogg", bitrate |-> None, codec |-> "libvorbis"]
          ELSE IF target_format = "wav"
          THEN [format |-> "wav", bitrate |-> None, codec |-> None]
          ELSE IF target_format = "flac"
          THEN [format |-> "flac", bitrate |-> None, codec |-> None]
          ELSE [format |-> target_format, bitrate |-> None, codec |-> None],
      branch  |-> IF target_format \in {"mp3", "ogg", "wav", "flac"}
                  THEN target_format ELSE "else",
      outcome |-> IF tool = "ok" THEN "output_path" ELSE "ConversionError" ]

\* Pillow colour modes of the opened image, and target formats as they
\* reach convert_image
ImageModes == {"RGBA", "LA", "P", "RGB", "L", "CMYK"}

ImageTargets == {"jpg", "jpeg", "pdf", "png", "webp", "bmp", "JPG"}

\* convert_image, up to img.save: the mode of the image that is saved, the
\* background it was pasted on and the mask of the paste (None where there
\* is no paste, "no_mask" for paste(img, mask=None))
convert_image(mode, target_format) ==
    IF Lower(target_format) \in {"jpg", "jpeg", "pdf"}
    THEN IF mode \in {"RGBA", "P", "LA"}
         THEN LET pasted == IF mode = "P" THEN "RGBA" ELSE mode
              IN  [ mode       |-> "RGB",
                    background |-> "white",
                    mask       |-> IF pasted = "RGBA" THEN "alpha"
                                   ELSE "no_mask" ]
         ELSE [ mode |-> "RGB", background |-> None, mask |-> None ]
    ELSE [ mode |-> mode, background |-> None, mask |-> None ]

\* convert_image: the Pillow format of a target; a target not listed is
\* handed to img.save in upper case
format_map ==
    [ jpg |-> "JPEG", jpeg |-> "JPEG", png |-> "PNG", webp |-> "WEBP",
      bmp |-> "BMP", pdf |-> "PDF" ]

\* convert_document: the Pandoc format of an extension; one not listed is
\* handed to pypandoc as it is
pandoc_format_map ==
    [ docx |-> "docx", doc |-> "doc", pdf |-> "pdf", txt |-> "plain",
      rtf |-> "rtf", odt |-> "odt" ]

\* source extensions and target formats as they reach convert_spreadsheet
SpreadsheetSources == {"csv", "xlsx", "xls", "pdf"}

SpreadsheetTargets == {"csv", "xlsx", "xls"}

\* a csv file, by the encodings under which its bytes decode; latin-1
\* decodes every byte sequence
CsvFiles == { d \cup {"latin-1"} : d \in SUBSET {"utf-8", "cp1251"} }

\* mutant: only utf-8 is tried
CsvEncodings_utf8_only == <<"utf-8">>

\* for encoding in ['utf-8', 'cp1251', 'latin-1']
CsvEncodings == <<"utf-8", "cp1251", "latin-1">>

\* the loop over the encodings: the first one under which read_csv does not
\* raise UnicodeDecodeError, None when the loop ends without a break
RECURSIVE FirstDecoding(_, _)
FirstDecoding(encodings, decodes) ==
    IF encodings = <<>> THEN None
    ELSE IF Head(encodings) \in decodes THEN Head(encodings)
    ELSE FirstDecoding(Tail(encodings), decodes)

\* convert_spreadsheet: how the source is read, with which encoding, how
\* the target is written, and how it ends.  The else of the loop calls
\* read_csv(..., errors='ignore'), a keyword read_csv does not have; every
\* exception, the two ConversionErrors of the body included, is re-raised
\* as ConversionError
convert_spreadsheet(input_ext, target_format, decodes, tool) ==
    LET encoding == IF input_ext = "csv"
                    THEN FirstDecoding(CsvEncodings, decodes) ELSE None
        read == IF input_ext \in {"xlsx", "xls"} THEN "read_excel"
                ELSE IF input_ext # "csv" THEN "unsupported_source"
                ELSE IF encoding # None THEN "read_csv"
                ELSE "read_csv_errors_ignore"
        write == IF read \notin {"read_excel", "read_csv"} THEN None
                 ELSE IF target_format = "csv" THEN "to_csv"
                 ELSE IF target_format = "xlsx" THEN "to_excel"
                 ELSE "unsupported_target"
    IN  [ read     |-> read,
          encoding |-> encoding,
          write    |-> write,
          outcome  |-> IF write \in {"to_csv", "to_excel"} /\ tool = "ok"
                       THEN "output_path" ELSE "ConversionError" ]

\* convert_file: the converter it calls (None when it calls none) and how
\* it ends; the other converters re-raise every exception as ConversionError
convert_file(source_format, target_format, tool) ==
    [ converter |-> Converter(source_format),
      outcome   |-> IF Converter(source_format) = None THEN "ConversionError"
                    ELSE IF Converter(source_format) = "convert_video"
                         THEN convert_video(target_format, tool).outcome
                    ELSE IF tool = "ok" THEN "output_path"
                    ELSE "ConversionError" ]

create_format_keyboard_call(e) ==
    /\ call' = [ fn |-> "create_format_keyboard", file_extension |-> e,
                 result |-> create_format_keyboard(e) ]
    /\ UNCHANGED <<session, tasks, fs>>

get_conversion_info_call(e) ==
    /\ call' = [ fn |-> "get_conversion_info", file_extension |-> e,
                 result |-> get_conversion_info(e) ]
    /\ UNCHANGED <<session, tasks, fs>>

convert_file_call(src, tgt, tool) ==
    /\ call' = [ fn |-> "convert_file", source_format |-> src,
                 target_format |-> tgt, tool |-> tool,
                 result |-> convert_file(src, tgt, tool) ]
    /\ UNCHANGED <<session, tasks, fs>>

convert_video_call(tgt, tool) ==
    /\ call' = [ fn |-> "convert_video", target_format |-> tgt, tool |-> tool,
                 result |-> convert_video(tgt, tool) ]
    /\ UNCHANGED <<session, tasks, fs>>

convert_spreadsheet_call(ext, tgt, decodes, tool) ==
    /\ call' = [ fn |-> "convert_spreadsheet", input_ext |-> ext,
                 target_format |-> tgt, decodes |-> decodes, tool |-> tool,
                 result |-> convert_spreadsheet(ext, tgt, decodes, tool) ]
    /\ UNCHANGED <<session, tasks, fs>>

convert_audio_call(tgt, tool) ==
    /\ call' = [ fn |-> "convert_audio", target_format |-> tgt, tool |-> tool,
                 result |-> convert_audio(tgt, tool) ]
    /\ UNCHANGED <<session, tasks, fs>>

convert_image_call(mode, tgt) ==
    /\ call' = [ fn |-> "convert_image", mode |-> mode, target_format |-> tgt,
                 result |-> convert_image(mode, tgt) ]
    /\ UNCHANGED <<session, tasks, fs>>

NextCalls ==
    \/ \E e \in Extensions : create_format_keyboard_call(e)
    \/ \E e \in Extensions : get_conversion_info_call(e)
    \/ \E src \in Extensions, tgt \in Targets, tool \in ToolOutcomes :
          convert_file_call(src, tgt, tool)
    \/ \E tgt \in VideoTargets, tool \in ToolOutcomes :
          convert_video_call(tgt, tool)
    \/ \E tgt \in AudioTargets, tool \in ToolOutcomes :
          convert_audio_call(tgt, tool)
    \/ \E mode \in ImageModes, tgt \in ImageTargets :
          convert_image_call(mode, tgt)
    \/ \E ext \in SpreadsheetSources, tgt \in SpreadsheetTargets,
          decodes \in CsvFiles, tool \in ToolOutcomes :
          convert_spreadsheet_call(ext, tgt, decodes, tool)

SpecCalls == Init /\ [][NextCalls]_vars

(***************************************************************************)
(* Vocabulary of the properties                                            *)
(***************************************************************************)
\* the step adds invocation t: a handler has just run to its first await
Started(t) == tasks' = tasks (+) SetToBag({t})

\* the step ends invocation t
Ended(t) == t \in InFlight /\ tasks' = tasks (-) SetToBag({t})

\* the step moves invocation t on, or ends it
Left(t) == t \in InFlight /\ CopiesIn(t, tasks') < CopiesIn(t, tasks)

\* t is an invocation of handle_conversion
IsSelection(t) == t.pc # "reply"

\* the step ends a conversion attempt: finally has run, and the handler
\* returns or raises
AttemptEnded(t) ==
    /\ t \in InFlight /\ t.pc \in {"done_edit"} \cup ExceptPcs
    /\ \/ tasks' = Remove(t)
       \/ tasks' = Replace(t, [t EXCEPT !.pc = "raised"])

\* the targets offered for a source extension
Offered(ext) == Range(create_format_keyboard(ext).buttons)

Supported(file_name) ==
    ExtensionOf(file_name) # "" /\
    ExtensionOf(file_name) \in get_supported_extensions

(***************************************************************************)
(* C1  After every conversion attempt (success, ConversionError or any     *)
(* other exception, also a failed download) the user's session is cleared  *)
(* (state None, data empty) and neither temp path of the attempt exists;   *)
(* and no temp file exists that no attempt in flight owns.                 *)
(***************************************************************************)
C1_NoLeak ==
    \A p \in fs : \E t \in InFlight :
        t.pc \in AttemptPcs /\ p \in {InputPath(t), OutputPath(t)}

C2_OnlyOfferedTargets ==
    \A t \in InFlight :
        t.pc \in AttemptPcs => <<"cvt", t.target>> \in Offered(t.ext)

(***************************************************************************)
(* C3  Once file F2 has replaced the pending request of file F1, a         *)
(* selection from the keyboard shown for F1 (a button that F2's keyboard   *)
(* does not have) is answered as a lost request and starts no attempt.     *)
(***************************************************************************)
C3_OldKeyboardIsStale ==
    [][ \A r \in InFlight : \A t \in BagToSet(tasks') :
           ( /\ r.pc = "reply" /\ r.replaced # NoFile
             /\ Started(t) /\ IsSelection(t) /\ t.user = r.user
             /\ Get(session[r.user].data, "file_id", NoFile) = r.file_id
             /\ <<"cvt", t.target>> \in
                    Offered(ExtensionOf(FileById(r.replaced).file_name))
             /\ <<"cvt", t.target>> \notin Offered(ExtensionOf(r.file_name)) )
           => t.pc = "stale_edit" ]_vars

(***************************************************************************)
(* C4  A valid selection clears the session before the conversion is       *)
(* dispatched: the step in which handle_conversion starts an attempt for   *)
(* an offered target leaves that user without a pending request.           *)
(***************************************************************************)
C4_ClearedBeforeDispatch ==
    [][ \A t \in BagToSet(tasks') :
           ( /\ Started(t) /\ t.pc = "download"
             /\ <<"cvt", t.target>> \in Offered(t.ext) )
           => session'[t.user] = Idle ]_vars

(***************************************************************************)
(* C5  A request stored for another file while an attempt of the same user *)
(* (for an offered target) is in flight is still stored, unchanged, when   *)
(* that attempt ends.                                                      *)
(***************************************************************************)
C5_NewRequestSurvives ==
    [][ \A t \in InFlight :
           ( /\ AttemptEnded(t)
             /\ <<"cvt", t.target>> \in Offered(t.ext)
             /\ HasRequest(session[t.user].data)
             /\ session[t.user].data["file_id"] # t.file_id )
           => session'[t.user] = session[t.user] ]_vars

(***************************************************************************)
(* C6  Two conversion attempts (for offered targets) in flight at the same  *)
(* time, past their download, never have the same input path or the same   *)
(* output path.                                                            *)
(***************************************************************************)
C6_DistinctPaths ==
    \A t1 \in InFlight, t2 \in InFlight :
        ( /\ t1.pc \in AttemptPcs \ {"download"}
          /\ t2.pc \in AttemptPcs \ {"download"}
          /\ <<"cvt", t1.target>> \in Offered(t1.ext)
          /\ <<"cvt", t2.target>> \in Offered(t2.ext)
          /\ (t1 # t2 \/ CopiesIn(t1, tasks) > 1) )
        => /\ InputPath(t1) # InputPath(t2)
           /\ OutputPath(t1) # OutputPath(t2)

(***************************************************************************)
(* C7  A user's session holds at most one pending request: its state is    *)
(* waiting_for_format exactly when data is present, the data are the file  *)
(* id, name and extension of one file, and right after process_file        *)
(* accepts a file they are those of that file.                             *)
(***************************************************************************)
C7_OneRequest ==
    \A u \in Users :
        /\ session[u].state = waiting_for_format <=> session[u].data # EmptyData
        /\ session[u].data # EmptyData =>
              /\ DOMAIN session[u].data =
                     {"file_id", "file_name", "file_extension"}
              /\ \E f \in Files :
                    /\ session[u].data["file_id"] = f.file_id
                    /\ session[u].data["file_name"] = f.file_name
                    /\ session[u].data["file_extension"] =
                           ExtensionOf(f.file_name)

C7_LatestFileStored ==
    /\ []C7_OneRequest
    /\ [][ \A r \in BagToSet(tasks') :
              (Started(r) /\ r.pc = "reply" /\ r.verdict = "Accepted") =>
                  /\ session'[r.user].state = waiting_for_format
                  /\ session'[r.user].data["file_id"] = r.file_id
                  /\ session'[r.user].data["file_name"] = r.file_name
                  /\ session'[r.user].data["file_extension"] =
                         ExtensionOf(r.file_name) ]_vars

\* process_file has just accepted a file over the request of another file
C7_Witness ==
    \E r \in InFlight :
        /\ r.pc = "reply" /\ r.verdict = "Accepted" /\ r.replaced # NoFile
        /\ Get(session[r.user].data, "file_id", NoFile) = r.file_id

(***************************************************************************)
(* C8  A well-formed selection by a user without a stored request is       *)
(* answered as a lost request: it creates no temp file and never becomes   *)
(* a conversion attempt, so no attempt lacks a file id or an extension.    *)
(***************************************************************************)
C8_EveryAttemptHasRequest ==
    \A t \in InFlight :
        t.pc \in AttemptPcs => (t.file_id # NoFile /\ t.ext # "")

C8_NoRequestIsStale ==
    /\ []C8_EveryAttemptHasRequest
    /\ [][ \A t \in BagToSet(tasks') :
              ( /\ Started(t) /\ IsSelection(t) /\ t.target # ""
                /\ session[t.user] = Idle )
              => (t.pc = "stale_edit" /\ fs' = fs) ]_vars
    /\ [][ \A t \in InFlight :
              (Ended(t) /\ t.pc = "stale_edit") => fs' = fs ]_vars

\* a selection is being answered as a lost request while the user has no
\* request stored
C8_Witness ==
    \E t \in InFlight : t.pc = "stale_edit" /\ session[t.user] = Idle

(***************************************************************************)
(* C9  For a file whose extension is not in the registry (also a missing   *)
(* one) process_file answers UnsupportedFormat and leaves every session    *)
(* unchanged.  This is the claim as stated, for files of any size.         *)
(***************************************************************************)
C9_UnsupportedAnySize ==
    [][ \A r \in BagToSet(tasks') :
           (Started(r) /\ r.pc = "reply" /\ ~Supported(r.file_name)) =>
               (r.verdict = "UnsupportedFormat" /\ session' = session) ]_vars

(***************************************************************************)
(* C9  (amended)  For a file within the size limit whose extension is not  *)
(* in the registry (also a missing one) process_file answers               *)
(* UnsupportedFormat; for such a file of any size every session is left    *)
(* unchanged, and no stored request and no conversion attempt ever is for  *)
(* a file with such an extension.                                          *)
(***************************************************************************)
C9_NoWorkForUnsupported ==
    /\ \A u \in Users :
          HasRequest(session[u].data) =>
              Supported(FileById(session[u].data["file_id"]).file_name)
    /\ \A t \in InFlight :
          t.pc \in AttemptPcs => Supported(FileById(t.file_id).file_name)

C9_UnsupportedRejected ==
    /\ []C9_NoWorkForUnsupported
    /\ [][ \A r \in BagToSet(tasks') :
              (Started(r) /\ r.pc = "reply" /\ ~Supported(r.file_name)) =>
                  /\ session' = session
                  /\ FileById(r.file_id).file_size <= MAX_FILE_SIZE =>
                         r.verdict = "UnsupportedFormat" ]_vars

\* a file without an extension has just been rejected while the user has a
\* request stored
C9_Witness ==
    \E r \in InFlight :
        /\ r.pc = "reply" /\ r.verdict = "UnsupportedFormat"
        /\ ExtensionOf(r.file_name) = ""
        /\ HasRequest(session[r.user].data)

(***************************************************************************)
(* C10  process_file answers SizeExceeded exactly when the size is greater *)
(* than MAX_FILE_SIZE, whatever the extension; such a rejection leaves     *)
(* every session unchanged, and no stored request and no conversion        *)
(* attempt ever is for a file above the limit.                             *)
(***************************************************************************)
C10_NoWorkForOversize ==
    /\ \A u \in Users :
          HasRequest(session[u].data) =>
              FileById(session[u].data["file_id"]).file_size <= MAX_FILE_SIZE
    /\ \A t \in InFlight :
          t.pc \in AttemptPcs =>
              FileById(t.file_id).file_size <= MAX_FILE_SIZE

C10_SizeCheckedFirst ==
    /\ []C10_NoWorkForOversize
    /\ [][ \A r \in BagToSet(tasks') :
              (Started(r) /\ r.pc = "reply") =>
                  /\ r.verdict = "SizeExceeded" <=>
                         FileById(r.file_id).file_size > MAX_FILE_SIZE
                  /\ r.verdict = "SizeExceeded" => session' = session ]_vars

\* an oversize file with an unsupported extension has just been rejected for
\* its size, and a file of exactly the limit has just been accepted
C10_Witness ==
    /\ \E r \in InFlight :
          /\ r.pc = "reply" /\ r.verdict = "SizeExceeded"
          /\ ~Supported(r.file_name)
    /\ \E r \in InFlight :
          /\ r.pc = "reply" /\ r.verdict = "Accepted"
          /\ FileById(r.file_id).file_size = MAX_FILE_SIZE
(***************************************************************************)
(* C11  For every supported extension e the targets the registry computes  *)
(* for e, the format buttons of create_format_keyboard and the             *)
(* available_formats of get_conversion_info, contain neither e nor an      *)
(* alias of e (jpg and jpeg are aliases of each other).                    *)
(***************************************************************************)
\* the extensions that name the format of e
Aliases(e) == IF e \in {"jpg", "jpeg"} THEN {"jpg", "jpeg"} ELSE {e}

\* the targets the recorded registry call computed
TargetsOf(c) ==
    IF c.fn = "create_format_keyboard"
    THEN { b[2] : b \in { x \in Range(c.result.buttons) : x[1] = "cvt" } }
    ELSE Range(c.result.available_formats)

C11_NoSelfNoAlias ==
    ( /\ call.fn \in {"create_format_keyboard", "get_conversion_info"}
      /\ call.file_extension \in get_supported_extensions )
    => TargetsOf(call) \cap Aliases(call.file_extension) = {}
(***************************************************************************)
(* C12  handle_cancel can run in every state and for every user, whatever  *)
(* the session holds; the step of a cancel leaves that user without a      *)
(* pending request (state None, data empty), and every selection read      *)
(* against the session it leaves is answered as a lost request or as       *)
(* malformed data, never dispatched.                                       *)
(***************************************************************************)
\* the step changes the session of u and nothing else: only the clear of
\* handle_cancel does
CancelStep(u) ==
    /\ session'[u] # session[u]
    /\ \A v \in Users \ {u} : session'[v] = session[v]
    /\ tasks' = tasks /\ fs' = fs

C12_CancelClears ==
    /\ [](\A u \in Users : ENABLED handle_cancel(u))
    /\ [][ \A u \in Users : CancelStep(u) =>
              /\ session'[u] = Idle
              /\ \A tok \in ClickTokens :
                     Entry(tok, session'[u].data) \in EarlyPcs ]_vars

\* two accepted files of one user are still being answered, and the request
\* the later one stored is gone: a cancel cleared it
C12_Witness ==
    \E u \in Users :
        /\ session[u] = Idle
        /\ BagCardinality(tasks) >= 2
        /\ \A t \in InFlight :
              t.pc = "reply" /\ t.verdict = "Accepted" /\ t.user = u
(***************************************************************************)
(* C13  No exception raised during a conversion attempt leaves             *)
(* handle_conversion: every failure of the attempt ends with the failure   *)
(* message shown and the handler returning.                                *)
(***************************************************************************)
C13_NothingPropagates ==
    \A t \in InFlight : t.pc # "raised"
(***************************************************************************)
(* C14  The file of a conversion attempt is the one of the request stored  *)
(* for the user when the selection arrives, whatever the token: every      *)
(* button of every keyboard is the tag and a target code and nothing else, *)
(* an attempt is started only by a token of exactly these two parts, and   *)
(* its file id, file name and source extension are those of the session.   *)
(***************************************************************************)
C14_TokensNameNoFile ==
    \A e \in Extensions :
        \A b \in Range(create_format_keyboard(e).buttons) :
            \/ b = CancelToken
            \/ /\ Len(b) = 2 /\ b[1] = "cvt"
               /\ b[2] \in Range(CONVERSION_OPTIONS[get_file_type(e)])

C15_FailedAttemptDeliveredNothing ==
    \A t \in InFlight : t.pc = "except_conv" => ~t.delivered

C15_MissingOutputIsFailure ==
    /\ []C15_FailedAttemptDeliveredNothing
    /\ [][ \A t \in InFlight :
              (Left(t) /\ t.pc = "converted_ok" /\ OutputPath(t) \notin fs) =>
                  tasks' = Replace(t, [t EXCEPT !.pc = "except_conv"]) ]_vars
    /\ [][ \A t \in InFlight :
              (Left(t) /\ t.pc = "except_conv") =>
                  \/ tasks' = Remove(t)
                  \/ tasks' = Replace(t, [t EXCEPT !.pc = "raised"]) ]_vars

\* the converter has returned normally, the input file is there and the
\* output file is not
C15_Witness ==
    \E t \in InFlight :
        /\ t.pc = "converted_ok"
        /\ InputPath(t) \in fs /\ OutputPath(t) \notin fs
(***************************************************************************)
(* C16  convert_file calls the converter of the category of the source     *)
(* extension, whatever the target and whatever the tool does: image ->     *)
(* convert_image, audio -> convert_audio, video -> convert_video,          *)
(* document, pdf and text -> convert_document, spreadsheet ->              *)
(* convert_spreadsheet; for a source extension without a category it calls *)
(* no converter and ends in ConversionError.                               *)
(***************************************************************************)
RouteOf ==
    [ image       |-> "convert_image",
      audio       |-> "convert_audio",
      video       |-> "convert_video",
      document    |-> "convert_document",
      pdf         |-> "convert_document",
      text        |-> "convert_document",
      spreadsheet |-> "convert_spreadsheet" ]

Touched == (fs' \ fs) \cup (fs \ fs')

\* the invocations the step starts, moves or ends
Moved ==
    { t \in InFlight \cup BagToSet(tasks') :
          CopiesIn(t, tasks') # CopiesIn(t, tasks) }

C17_UsersAreIndependent ==
    [][ \E a \in Users :
           /\ \A b \in Users \ {a} : session'[b] = session[b]
           /\ \A t \in Moved : t.user = a
           /\ \A p \in Touched : p[2] = a
           /\ \A t \in InFlight :
                 (t.user # a /\ t.pc \in AttemptPcs) =>
                     /\ InputPath(t) \in fs' <=> InputPath(t) \in fs
                     /\ OutputPath(t) \in fs' <=> OutputPath(t) \in fs ]_vars

\* two users convert the same file to the same target; both input files
\* exist, one attempt is about to run finally and the other user's request
\* is still stored
C17_Witness ==
    \E t1 \in InFlight, t2 \in InFlight :
        /\ t1.user # t2.user
        /\ t1.pc \in ExceptPcs /\ t2.pc \in AttemptPcs
        /\ t1.file_id = t2.file_id /\ t1.target = t2.target
        /\ InputPath(t1) \in fs /\ InputPath(t2) \in fs
        /\ HasRequest(session[t2.user].data)
(***************************************************************************)
(* C18  The blocking body of every converter runs on the executor, so      *)
(* while the conversion of one user is running the event loop is free:     *)
(* for every other user a cancel, a file submission and a format selection *)
(* can be taken up at once, and each of that user's invocations in flight  *)
(* can take its next step.                                                 *)
(***************************************************************************)
\* the next step of invocation t
Resume(t) ==
    \/ ReplySent(t)
    \/ \E ok \in BOOLEAN : BadTokenEdit(t, ok) \/ StaleEdit(t, ok)
    \/ \E result \in {"edit_failed", "saved", "partial", "failed"} :
          Download(t, result)
    \/ \E editOk \in BOOLEAN, wrote \in BOOLEAN, raised \in BOOLEAN :
          ConverterRun(t, editOk, wrote, raised)
    \/ ConvertResume(t)
    \/ \E result \in {"edit_failed", "sent", "send_failed"} : Upload(t, result)
    \/ \E ok \in BOOLEAN : DoneEdit(t, ok) \/ ExceptEdit(t, ok)
    \/ Propagate(t)

C18_LoopStaysFree ==
    \A t \in InFlight :
        (t.pc = "convert" /\ Converter(t.ext) # None) =>
            /\ RunsOn[Converter(t.ext)] = "executor"
            /\ \A b \in Users \ {t.user} :
                  /\ ENABLED handle_cancel(b)
                  /\ BagCardinality(tasks) < MaxTasks =>
                        /\ \A f \in FilesOf(b) : ENABLED process_file(b, f)
                        /\ \A tok \in ClickTokens :
                              ENABLED handle_conversion(b, tok)
                  /\ \A t2 \in InFlight : t2.user = b => ENABLED Resume(t2)

\* the converter of one user is running on its input file while another
\* user's result has been delivered and its last edit is awaited
C18_Witness ==
    \E t \in InFlight, t2 \in InFlight :
        /\ t.user # t2.user
        /\ t.pc = "convert" /\ InputPath(t) \in fs
        /\ t2.pc = "done_edit" /\ t2.delivered
(***************************************************************************)
(* C19  A cancel leaves every invocation in flight and every temp file as  *)
(* they are; a conversion attempt leaves its position only by its own next *)
(* step, in the order download, converter, check of the output, upload,    *)
(* success message, or into an except block, and it ends only after the    *)
(* success message or the message of an except block, with finally (or,    *)
(* before the try block is entered, when the first status edit raises).    *)
(***************************************************************************)
\* the positions an attempt can move to from each position
NextPcs ==
    [ download         |-> {"convert", "except_generic"},
      convert          |-> {"converted_ok", "converted_raised",
                            "except_generic"},
      converted_ok     |-> {"upload", "except_conv"},
      converted_raised |-> {"except_conv"},
      upload           |-> {"done_edit", "except_generic"},
      done_edit        |-> {"except_generic"},
      except_conv      |-> {},
      except_generic   |-> {} ]

C19_AttemptRunsToItsEnd ==
    /\ [][ \A u \in Users :
              handle_cancel(u) => (tasks' = tasks /\ fs' = fs) ]_vars
    /\ [][ \A t \in InFlight :
              (Left(t) /\ t.pc \in AttemptPcs) =>
                  \/ \E pc2 \in NextPcs[t.pc], d \in BOOLEAN :
                        tasks' = Replace(t, [t EXCEPT !.pc = pc2,
                                                      !.delivered = d])
                  \/ AttemptEnded(t)
                  \/ /\ t.pc = "download" /\ tasks' = Remove(t)
                     /\ session' = session /\ fs' = fs ]_vars

\* the converter of an attempt has written its output and the upload is
\* awaited, after a cancel of the same user cleared the request that an
\* accepted file, still being answered, had stored
C19_Witness ==
    \E t \in InFlight, r \in InFlight :
        /\ t.user = r.user /\ session[t.user] = Idle
        /\ t.pc = "upload" /\ OutputPath(t) \in fs
        /\ r.pc = "reply" /\ r.verdict = "Accepted"
(***************************************************************************)
(* C20  convert_video hands ffmpeg the codecs of the target format alone:  *)
(* mp4 -> (libx264, aac), avi -> (mpeg4, mp3), mkv -> (libx264, aac), any  *)
(* other target -> (copy, copy); and when ffmpeg reports an error          *)
(* (ffmpeg.Error) convert_video ends in ConversionError.                   *)
(***************************************************************************)
CodecPair(target_format) ==
    CASE target_format = "mp4" -> <<"libx264", "aac">>
      [] target_format = "avi" -> <<"mpeg4", "mp3">>
      [] target_format = "mkv" -> <<"libx264", "aac">>
      [] OTHER -> <<"copy", "copy">>

C20_CodecsAndToolFailure ==
    call.fn = "convert_video" =>
        /\ <<call.result.settings.vcodec, call.result.settings.acodec>> =
               CodecPair(call.target_format)
        /\ call.tool \in {"ffmpeg.Error", "ffmpeg.Error.undecodable"} =>
               call.result.outcome = "ConversionError"
(***************************************************************************)
(* C21  convert_spreadsheet reads a csv source with the first of utf-8,    *)
(* cp1251, latin-1, in this order, under which the file decodes; when the  *)
(* tools work, a csv is then written to csv or xlsx successfully, also one *)
(* that does not decode as utf-8.                                          *)
(***************************************************************************)
C21_FirstDecodingEncoding ==
    (call.fn = "convert_spreadsheet" /\ call.input_ext = "csv") =>
        /\ call.result.read = "read_csv"
        /\ call.result.encoding =
               IF "utf-8" \in call.decodes THEN "utf-8"
               ELSE IF "cp1251" \in call.decodes THEN "cp1251"
               ELSE "latin-1"
        /\ (call.tool = "ok" /\ call.target_format \in {"csv", "xlsx"}) =>
               call.result.outcome = "output_path"

\* a csv that decodes under cp1251 and not under utf-8 was converted to xlsx
C21_Witness ==
    /\ call.fn = "convert_spreadsheet"
    /\ call.input_ext = "csv" /\ call.target_format = "xlsx"
    /\ "utf-8" \notin call.decodes /\ "cp1251" \in call.decodes
    /\ call.result.encoding = "cp1251"
    /\ call.result.outcome = "output_path"
(***************************************************************************)
(* C22  In convert_image, for the targets without an alpha channel (jpg,   *)
(* jpeg, pdf) an image of a mode with transparency (RGBA, LA, P) is pasted *)
(* on a white background with its alpha channel as the mask and saved as   *)
(* RGB; for every other target the image is saved in the mode it has.      *)
(***************************************************************************)
C22_TransparencyComposited ==
    call.fn = "convert_image" =>
        IF Lower(call.target_format) \in {"jpg", "jpeg", "pdf"}
        THEN call.mode \in {"RGBA", "LA", "P"} =>
                 /\ call.result.background = "white"
                 /\ call.result.mask = "alpha"
                 /\ call.result.mode = "RGB"
        ELSE /\ call.result.mode = call.mode
             /\ call.result.background = None
\* the invocation of process_file answers a file it rejected for its size
\* or for its extension
Rejected(t) ==
    t.pc = "reply" /\ t.verdict \in {"SizeExceeded", "UnsupportedFormat"}

(***************************************************************************)
(* C23  A file that process_file rejects as SizeExceeded or                *)
(* UnsupportedFormat leaves every session as it is; a selection that       *)
(* arrives while the rejection is being answered starts its attempt with   *)
(* the file id, file name and extension of the request stored before, not  *)
(* with the rejected file.                                                 *)
(***************************************************************************)
C23_RejectionKeepsRequest ==
    [][ \A t \in BagToSet(tasks') :
          /\ (Started(t) /\ Rejected(t)) => session' = session
          /\ (Started(t) /\ t.pc = "download") =>
                \A r \in InFlight :
                    (Rejected(r) /\ r.user = t.user) =>
                        /\ t.file_id # r.file_id
                        /\ t.file_id = session[t.user].data["file_id"]
                        /\ t.file_name = session[t.user].data["file_name"]
                        /\ t.ext = session[t.user].data["file_extension"] ]_vars

\* a rejected file is being answered while the user's request of the file
\* accepted before is still stored and is being converted
C23_Witness ==
    \E r \in InFlight, t \in InFlight :
        /\ Rejected(r) /\ t.user = r.user
        /\ t.pc = "download"
        /\ session[t.user].state = waiting_for_format
        /\ session[t.user].data["file_id"] = t.file_id
        /\ t.file_id # r.file_id
(***************************************************************************)
(* C24  An attempt that has delivered the result document never shows a    *)
(* failure message: no edit_text of an except block completes for an       *)
(* attempt whose answer_document went through.                             *)
(***************************************************************************)
C24_ResultOrFailureMessage ==
    [][ \A t \in InFlight :
          (t.pc \in ExceptPcs /\ Ended(t)) => ~t.delivered ]_vars
(***************************************************************************)
(* C25  An invocation of handle_conversion for callback data that start    *)
(* with the tag but do not split into exactly two parts ends without       *)
(* starting an attempt and without touching a temp file, and when it ends  *)
(* the user's session is cleared.                                          *)
(***************************************************************************)
C25_MalformedRejectedAndCleared ==
    [][ \A t \in InFlight :
          (t.pc = "bad_edit" /\ Left(t)) =>
              /\ Ended(t)
              /\ fs' = fs
              /\ session'[t.user] = Idle ]_vars
\* the targets a user can select for a source extension: those listed by
\* get_conversion_info and those on the buttons of create_format_keyboard
LegalTargets(ext) ==
    Range(get_conversion_info(ext).available_formats) \cup
    { b[2] : b \in Range(create_format_keyboard(ext).buttons) \ {CancelToken} }

(***************************************************************************)
(* C26  convert_file of a supported source extension and a target the      *)
(* registry offers for it calls a converter, and the converter has an      *)
(* explicit branch for the pair: convert_spreadsheet reads the source and  *)
(* writes the target, convert_video takes its codecs from codec_settings   *)
(* and not the (copy, copy) default, convert_audio takes one of its four   *)
(* named export branches, and the format maps of convert_image and         *)
(* convert_document list the target.                                       *)
(***************************************************************************)
C26_OfferedPairsHavePresets ==
    ( /\ call.fn = "convert_file"
      /\ call.source_format \in get_supported_extensions
      /\ call.target_format \in LegalTargets(call.source_format) )
    => LET converter == call.result.converter
           src == call.source_format
           tgt == call.target_format
       IN  /\ converter # None
           /\ converter = "convert_spreadsheet" =>
                  \A decodes \in CsvFiles :
                      /\ convert_spreadsheet(src, tgt, decodes, call.tool).read
                             \in {"read_excel", "read_csv"}
                      /\ convert_spreadsheet(src, tgt, decodes, call.tool).write
                             \in {"to_csv", "to_excel"}
           /\ converter = "convert_video" =>
                  /\ tgt \in DOMAIN codec_settings
                  /\ convert_video(tgt, call.tool).settings
                         # [vcodec |-> "copy", acodec |-> "copy"]
           /\ converter = "convert_audio" =>
                  convert_audio(tgt, call.tool).branch # "else"
           /\ converter = "convert_image" => Lower(tgt) \in DOMAIN format_map
           /\ converter = "convert_document" =>
                  tgt \in DOMAIN pandoc_format_map

\* a mov video is converted to mkv, a target offered for it
C26_Witness ==
    /\ call.fn = "convert_file"
    /\ call.source_format = "mov" /\ call.target_format = "mkv"
    /\ "mkv" \in LegalTargets("mov")
    /\ call.result.converter = "convert_video"
    /\ call.result.outcome = "output_path"
(***************************************************************************)
(* C27  For every supported extension get_conversion_info lists at least   *)
(* one target and create_format_keyboard builds a keyboard with at least   *)
(* one format button, so process_file accepts every supported file whose   *)
(* size is within the limit and stores its request: no invocation of       *)
(* process_file ends in the NoFormats or in the KeyboardFailed branch.     *)
(***************************************************************************)
C27_TargetsNonEmpty ==
    \A e \in get_supported_extensions :
        /\ get_conversion_info(e).found
        /\ get_conversion_info(e).available_formats # <<>>
        /\ create_format_keyboard(e).built
        /\ Range(create_format_keyboard(e).buttons) \ {CancelToken} # {}
        /\ \A size \in {0, MAX_FILE_SIZE} :
              Verdict([ file_id   |-> IdPrefix,
                        file_name |-> <<"file", e>>,
                        file_size |-> size ]) = "Accepted"

C27_SupportedWithinLimitAccepted ==
    /\ []C27_TargetsNonEmpty
    /\ [][ \A t \in BagToSet(tasks') :
              (Started(t) /\ t.pc = "reply") =>
                  /\ t.verdict \notin {"NoFormats", "KeyboardFailed"}
                  /\ ( /\ Supported(t.file_name)
                       /\ FileById(t.file_id).file_size <= MAX_FILE_SIZE ) =>
                         /\ t.verdict = "Accepted"
                         /\ session'[t.user].state = waiting_for_format
                         /\ session'[t.user].data = RequestOf(FileById(t.file_id))
       ]_vars

\* a supported file of exactly the size limit is accepted and its request
\* is the pending one
C27_Witness ==
    \E t \in InFlight :
        /\ t.pc = "reply" /\ t.verdict = "Accepted"
        /\ Supported(t.file_name)
        /\ FileById(t.file_id).file_size = MAX_FILE_SIZE
        /\ session[t.user].state = waiting_for_format
        /\ session[t.user].data["file_id"] = t.file_id
====
